---- MODULE Spec2Model ----
(***************************************************************************)
(* Model of the two-level context menu of the graph editor                 *)
(* (src/components/graph/state/menu.ts, class Menu).                       *)
(*                                                                         *)
(* The state is the fields of a Menu object and the wall clock read by     *)
(* `new Date().valueOf()`.  Every public method is one action.  The host   *)
(* State is not modelled: what rebuildOptions reads from it                *)
(* (parent.selected.point) is an input of the constructor and of show, and *)
(* parent.bounds.x is the fixed width BoundsX.                             *)
(*                                                                         *)
(* A MenuOption is a record.  The field `obj` stands for the identity of   *)
(* the JavaScript object: the code compares options with == / != (by       *)
(* reference), and rebuildOptions allocates fresh objects on every call.   *)
(* All options allocated by one rebuildOptions call share one `obj` value; *)
(* within one tree the other fields tell the options apart.  For the       *)
(* built-in tree `obj` is the age of the allocation: 0 for the objects     *)
(* of the latest rebuildOptions call, 1 for the objects of an earlier call *)
(* (only optionPath can still hold those, and all from one call).  The     *)
(* `shortcut` field (display only, looked up in KeyboardActions) is left   *)
(* out.                                                                    *)
(***************************************************************************)
EXTENDS Integers, Sequences, FiniteSets, TLC

VARIABLES
    position,                    \* Menu.position
    mousePosition,               \* Menu.mousePosition
    mousePositionOnOpen,         \* Menu.mousePositionOnOpen
    tree,                        \* Menu.tree
    visible,                     \* Menu.visible
    optionPath,                  \* Menu.optionPath
    disableBufferTriangles,      \* Menu.disableBufferTriangles
    enteredRootElementTimestamp, \* Menu.enteredRootElementTimestamp
    now,                         \* the clock read by new Date().valueOf()
    op,                          \* "click" / "setMousePosition" when the last
                                 \* step was that call, "other" otherwise
    ret,                         \* what the last click returned
    wasVisible,                  \* Menu.visible when the last click or
                                 \* setMousePosition was called
    rootChangedAt,               \* the clock at the latest pointer update that,
                                 \* with the buffers disabled, picked a new root
                                 \* in the full re-scan (0: none yet)
    stayedOnRoot                 \* whether, since that update, the pointer has
                                 \* stayed on the row of the root it picked:
                                 \* nothing was called but pointer updates
                                 \* inside that row

vars == << position, mousePosition, mousePositionOnOpen, tree, visible,
           optionPath, disableBufferTriangles, enteredRootElementTimestamp,
           now, op, ret, wasVisible, rootChangedAt, stayedOnRoot >>

----------------------------------------------------------------------------
(* Bounds of the model *)

\* number of clock advances in one behaviour
MaxTicks == 2
\* milliseconds the clock advances in one Tick
TickMs == 300
\* clock reading when the menu is constructed
ClockStart == 1000
\* parent.bounds.x, the width of the host viewport
BoundsX == 450
\* longest root list of the option lists a layout pass is run on
MaxLayoutLen == 3
\* a computedOffset left in an option by an earlier layout pass
StaleOffset == 32

----------------------------------------------------------------------------
(* Program constants *)

\* enum MenuOptionType
Default == 0
Header == 1
Spacer == 2

\* Sizes.MenuWidth and Sizes.PropertiesWidth (rendering/sizes)
MenuWidth == 100
PropertiesWidth == 100

\* `height = 12` in computeOffsetForOptions
BaseOffset == 12
\* the row heights returned by offsetOf
SpacerHeight == 2
RowHeight == 20
\* `now - enteredRootElementTimestamp > 500`
BufferDelay == 500

----------------------------------------------------------------------------
(* Vec2 helpers of @/shared/math *)

vec2(x, y) == [x |-> x, y |-> y]
add(a, b) == [x |-> a.x + b.x, y |-> a.y + b.y]
sub(a, b) == [x |-> a.x - b.x, y |-> a.y - b.y]

----------------------------------------------------------------------------
(* Option factories *)

simpleOption(label, action, enabled, children, obj) ==
    [ type |-> Default, label |-> label, action |-> action,
      children |-> children, computedOffset |-> 0, enabled |-> enabled,
      obj |-> obj ]

spacer(obj) ==
    [ type |-> Spacer, label |-> "", action |-> "", children |-> << >>,
      computedOffset |-> 0, enabled |-> TRUE, obj |-> obj ]

header(name, obj) ==
    [ type |-> Header, label |-> name, action |-> "", children |-> << >>,
      computedOffset |-> 0, enabled |-> TRUE, obj |-> obj ]

----------------------------------------------------------------------------
(* Layout *)

offsetOf(option) == IF option.type = Spacer THEN SpacerHeight ELSE RowHeight

RECURSIVE HeightOfFirst(_, _)
\* the running `height` of size / computeOffsetForOptions after n options
HeightOfFirst(options, n) ==
    IF n = 0 THEN 0
    ELSE HeightOfFirst(options, n - 1) + offsetOf(options[n])

size(options) == vec2(MenuWidth, HeightOfFirst(options, Len(options)))

\* computeOffsetForOptions as it would be without the recursion into children
computeOffsetForRootsOnly(options) ==
    [ i \in DOMAIN options |->
        [ options[i] EXCEPT
            !.computedOffset = BaseOffset + HeightOfFirst(options, i - 1) ] ]

RECURSIVE computeOffsetForOptions(_)
computeOffsetForOptions(options) ==
    [ i \in DOMAIN options |->
        [ options[i] EXCEPT
            !.computedOffset = BaseOffset + HeightOfFirst(options, i - 1),
            !.children = IF Len(@) > 0 THEN computeOffsetForOptions(@) ELSE @ ] ]

----------------------------------------------------------------------------
(* rebuildOptions: the built-in tree, laid out before it is published *)

builtinOptions(sel, obj) ==
    << header("Curve Context Menu", obj),
       spacer(obj),
       simpleOption("Copy", "Copy", sel, << >>, obj),
       spacer(obj),
       simpleOption("Move frame guide", "SetGuideFrame", TRUE, << >>, obj),
       simpleOption("Move value guide", "SetGuideValue", TRUE, << >>, obj),
       spacer(obj),
       simpleOption("Handle Type", "", sel,
           << simpleOption("Linear", "HandleToLinear", TRUE, << >>, obj),
              simpleOption("Beizer", "HandleToBeizer", TRUE, << >>, obj) >>,
           obj),
       simpleOption("Insert keyframe", "InsertKeyframe", TRUE, << >>, obj),
       simpleOption("Insert keyframe in all curves", "InsertKeyframeAllCurves",
                    TRUE, << >>, obj),
       simpleOption("Snap", "", sel,
           << header("Snap ...", obj),
              spacer(obj),
              simpleOption("To selected frame", "SnapFrame", TRUE, << >>, obj),
              simpleOption("Value to guide", "SnapValue", TRUE, << >>, obj) >>,
           obj) >>

rebuildOptions(sel, obj) ==
    [ options |-> computeOffsetForOptions(builtinOptions(sel, obj)) ]

\* The objects of the latest rebuildOptions call, and those of earlier calls
Latest == 0
Earlier == 1

\* An option as it is named once a later rebuildOptions call has run: the
\* object and its fields are the same, its allocation is no longer the latest.
aged(option) ==
    IF option.obj # Latest THEN option
    ELSE [ option EXCEPT
             !.obj = Earlier,
             !.children = [ i \in DOMAIN @ |-> [ @[i] EXCEPT !.obj = Earlier ] ] ]

----------------------------------------------------------------------------
(* Geometry primitives *)

pointInBox(point, upperLeft, sz) ==
    LET delta == sub(point, upperLeft)
    IN  delta.x < sz.x /\ delta.y < sz.y /\ delta.x >= 0 /\ delta.y >= 0

dot(a, b) == a.x * b.x + a.y * b.y

\* The numerators of v and w and the common denominator.  The code divides
\* in floating point; with integer pixel coordinates the products are exact
\* and the signs of v and w are the signs of the numerators.
baycentric(point, triangle) ==
    LET v0 == sub(triangle[2], triangle[1])
        v1 == sub(triangle[3], triangle[1])
        v2 == sub(point, triangle[1])
        d00 == dot(v0, v0)
        d01 == dot(v0, v1)
        d11 == dot(v1, v1)
        d20 == dot(v2, v0)
        d21 == dot(v2, v1)
    IN  [ denom |-> d00 * d11 - d01 * d01,
          v |-> d11 * d20 - d01 * d21,
          w |-> d00 * d21 - d01 * d20 ]

\* u = 1 - v - w >= 0, v >= 0, w >= 0.  denom >= 0 by Cauchy-Schwarz.  With
\* denom = 0 the quotients are NaN or infinite: a NaN fails every comparison,
\* -Infinity fails its own, and v = w = +Infinity gives u = -Infinity, so
\* the test is false.
pointInTriangle(point, triangle) ==
    LET b == baycentric(point, triangle)
    IN  /\ b.denom # 0
        /\ b.denom - b.v - b.w >= 0
        /\ b.v >= 0
        /\ b.w >= 0

----------------------------------------------------------------------------------------------------------------------------------------
(* The regions of the sticky-submenu test, for a root option `root` of a   *)
(* menu anchored at `pos`; `sz` is size(tree.options), computed once at    *)
(* the top of optionPathUnderMouse                                         *)

inRootOption(root, pos, sz, mouse) ==
    pointInBox(mouse,
               vec2(pos.x, pos.y + root.computedOffset),
               vec2(sz.x, offsetOf(root)))

inChildMenu(root, pos, sz, mouse) ==
    pointInBox(mouse,
               add(pos, vec2(sz.x, root.computedOffset - 10)),
               size(root.children))

\* `upperLeft` of the sticky test and of the re-scan
rowUpperLeft(root, pos) == vec2(pos.x, pos.y + root.computedOffset - 10)

upperBufferTriangle(root, pos, sz) ==
    LET upperLeft == rowUpperLeft(root, pos)
    IN  << upperLeft,
           add(upperLeft, vec2(sz.x, 0)),
           add(upperLeft, vec2(sz.x, -15)) >>

\* lowerBufferTriangle as it would be for a submenu of no height
lowerBufferTriangleFlat(root, pos, sz) ==
    LET lowerLeft == add(rowUpperLeft(root, pos), vec2(0, offsetOf(root)))
    IN  << lowerLeft,
           add(lowerLeft, vec2(sz.x, 0)),
           add(lowerLeft, vec2(sz.x, 0)) >>

lowerBufferTriangle(root, pos, sz) ==
    LET lowerLeft == add(rowUpperLeft(root, pos), vec2(0, offsetOf(root)))
    IN  << lowerLeft,
           add(lowerLeft, vec2(sz.x, size(root.children).y)),
           add(lowerLeft, vec2(sz.x, 0)) >>

inUpperBufferTriangle(root, pos, sz, mouse) ==
    pointInTriangle(mouse, upperBufferTriangle(root, pos, sz))

inLowerBufferTriangle(root, pos, sz, mouse) ==
    pointInTriangle(mouse, lowerBufferTriangle(root, pos, sz))

inChildBuffer(root, pos, sz, mouse) ==
    pointInBox(mouse,
               add(pos, vec2(sz.x - 15, root.computedOffset - 35)),
               add(size(root.children), vec2(30, 50)))

\* the row box of child c of `root` in the submenu column, the same in both
\* scans; childSize is size(root.children)
childRowBox(root, c, childSize, pos, sz, mouse) ==
    pointInBox(mouse,
               add(rowUpperLeft(root, pos), vec2(sz.x, c.computedOffset - 10)),
               vec2(childSize.x, offsetOf(c)))

\* the row box of root option v in the full re-scan
rootRowBox(v, pos, sz, mouse) ==
    pointInBox(mouse, rowUpperLeft(v, pos), vec2(sz.x, offsetOf(v)))

RECURSIVE childHits(_, _, _, _, _, _)
\* root.children.forEach: [root, c] is pushed for each of the first n
\* children whose row holds the pointer
childHits(root, n, childSize, pos, sz, mouse) ==
    IF n = 0 THEN << >>
    ELSE childHits(root, n - 1, childSize, pos, sz, mouse)
         \o (IF childRowBox(root, root.children[n], childSize, pos, sz, mouse)
             THEN << root, root.children[n] >> ELSE << >>)

\* all the pushes of one forEach over root.children
allChildHits(root, pos, sz, mouse) ==
    IF Len(root.children) = 0 THEN << >>
    ELSE childHits(root, Len(root.children), size(root.children), pos, sz, mouse)

\* stickyRegion as it would be without the two buffer triangles
stickyRegionNoTriangles(root, pos, sz, mouse, disabled) ==
    \/ inRootOption(root, pos, sz, mouse)
    \/ inChildMenu(root, pos, sz, mouse)
    \/ inChildBuffer(root, pos, sz, mouse)

\* the union test of the sticky path; the triangles are forced to false
\* while disableBufferTriangles is set
stickyRegion(root, pos, sz, mouse, disabled) ==
    \/ inRootOption(root, pos, sz, mouse)
    \/ inChildMenu(root, pos, sz, mouse)
    \/ (~disabled /\ inUpperBufferTriangle(root, pos, sz, mouse))
    \/ (~disabled /\ inLowerBufferTriangle(root, pos, sz, mouse))
    \/ inChildBuffer(root, pos, sz, mouse)

\* whether the previous path has a root with a submenu
hasStickyRoot(path) == Len(path) > 0 /\ Len(path[1].children) > 0

\* whether optionPathUnderMouse returns from the sticky block
stickyApplies(path, pos, sz, mouse, disabled) ==
    /\ hasStickyRoot(path)
    /\ stickyRegion(path[1], pos, sz, mouse, disabled)

\* timerStep as it would be if a new root did not restart the timer
timerStepNoRestart(st, v, path, clock) ==
    [ result |-> Append(st.result, v),
      disabled |-> IF clock - st.stamp > BufferDelay THEN FALSE ELSE st.disabled,
      stamp |-> st.stamp ]

\* the timer step of the re-scan for a root v whose row holds the pointer;
\* st = [result, disabled, stamp]
timerStep(st, v, path, clock) ==
    LET stamp == IF st.disabled /\ (Len(path) = 0 \/ v # path[1])
                 THEN clock ELSE st.stamp
    IN  [ result |-> Append(st.result, v),
          disabled |-> IF clock - stamp > BufferDelay THEN FALSE ELSE st.disabled,
          stamp |-> stamp ]

\* the body of tree.options.forEach for root v
scanRoot(st, v, path, pos, sz, mouse, clock) ==
    LET st1 == IF rootRowBox(v, pos, sz, mouse)
               THEN timerStep(st, v, path, clock) ELSE st
        hits == allChildHits(v, pos, sz, mouse)
    IN  [ result |-> st1.result \o hits,
          disabled |-> IF Len(hits) > 0 THEN TRUE ELSE st1.disabled,
          stamp |-> st1.stamp ]

RECURSIVE scanRoots(_, _, _, _, _, _, _, _)
\* tree.options.forEach over the first n root options
scanRoots(n, st, path, pos, options, sz, mouse, clock) ==
    IF n = 0 THEN st
    ELSE scanRoot(scanRoots(n - 1, st, path, pos, options, sz, mouse, clock),
                  options[n], path, pos, sz, mouse, clock)

\* stickyResult as it would be if entering the submenu left the buffers alone
stickyResultKeepsBuffers(root, pos, sz, mouse, disabled, stamp) ==
    IF inChildMenu(root, pos, sz, mouse)
    THEN [ result |-> allChildHits(root, pos, sz, mouse),
           disabled |-> disabled,
           stamp |-> stamp ]
    ELSE [ result |-> << root >>, disabled |-> disabled, stamp |-> stamp ]

\* the sticky block, entered when stickyApplies
stickyResult(root, pos, sz, mouse, disabled, stamp) ==
    IF inChildMenu(root, pos, sz, mouse)
    THEN [ result |-> allChildHits(root, pos, sz, mouse),
           disabled |-> TRUE,
           stamp |-> stamp ]
    ELSE [ result |-> << root >>, disabled |-> disabled, stamp |-> stamp ]

\* the full re-scan
rescan(path, pos, options, sz, mouse, disabled, stamp, clock) ==
    scanRoots(Len(options),
              [ result |-> << >>, disabled |-> disabled, stamp |-> stamp ],
              path, pos, options, sz, mouse, clock)

\* optionPathUnderMouse: the new path and the two fields it writes
optionPathUnderMouse(path, pos, options, mouse, disabled, stamp, clock) ==
    LET sz == size(options)
    IN  IF stickyApplies(path, pos, sz, mouse, disabled)
        THEN stickyResult(path[1], pos, sz, mouse, disabled, stamp)
        ELSE rescan(path, pos, options, sz, mouse, disabled, stamp, clock)

----------------
(* Inputs *)

\* Trees a host passes to setOptionTree: two host-owned objects with the same
\* options, one with the offsets a layout pass gives and one as the option
\* factories leave it (computedOffset = 0).
hostOptions(obj) ==
    << simpleOption("A", "ActA", TRUE,
           << simpleOption("A1", "ActA1", TRUE, << >>, obj),
              simpleOption("A2", "ActA2", FALSE, << >>, obj) >>,
           obj),
       simpleOption("B", "ActB", TRUE,
           << simpleOption("B1", "ActB1", TRUE, << >>, obj) >>,
           obj) >>

HostTrees ==
    { [ options |-> computeOffsetForOptions(hostOptions(2)) ],
      [ options |-> hostOptions(3) ] }

\* Anchors passed to setPosition, both inside the viewport: the first fits,
\* the second makes the menu, its submenu column and the properties panel
\* overflow the right edge.
PositionInputs == { vec2(100, 50), vec2(300, 50) }

\* Pointer positions (viewport pixels).  With the menu anchored at (100, 50)
\* and the built-in tree: the header row, the rows of "Copy", "Move frame
\* guide" and "Handle Type" (above and below the line where the sticky row
\* box starts), the two buffer triangles of "Handle Type", the strip of its
\* submenu box above the first child row, "Linear", the last two pixels of
\* "Beizer", the header of the "Snap" submenu, a point of the padded box
\* outside the menu; the band where the rows of an unlaid-out tree pile
\* up; and, for the laid-out host tree, a point of the submenu column where
\* the rows of "A2" and of "B1" overlap.  The points of the submenu column
\* lie outside the padded box.
MousePoints ==
    { vec2(150, 62),  vec2(150, 84),  vec2(150, 110), vec2(150, 142),
      vec2(150, 153), vec2(180, 128), vec2(180, 170), vec2(250, 139),
      vec2(250, 150), vec2(250, 179), vec2(250, 210), vec2(80, 110),
      vec2(150, 45),  vec2(250, 84) }

----------------------------------------------------------------------------------------------------------------------------------------
(* The operations *)

Init ==
    /\ position = vec2(0, 0)
    /\ mousePosition = vec2(0, 0)
    /\ mousePositionOnOpen = vec2(0, 0)
    /\ optionPath = << >>
    /\ disableBufferTriangles = TRUE
    /\ enteredRootElementTimestamp = 0
    /\ \E hasSelectedPoint \in BOOLEAN :
           tree = rebuildOptions(hasSelectedPoint, Latest)
    /\ visible = FALSE
    /\ now = ClockStart
    /\ op = "other"
    /\ ret = ""
    /\ wasVisible = FALSE
    /\ rootChangedAt = 0
    /\ stayedOnRoot = FALSE

setOptionTree(options) ==
    /\ tree' = options
    /\ op' = "other"
    /\ ret' = ""
    /\ wasVisible' = FALSE
    /\ stayedOnRoot' = FALSE
    /\ UNCHANGED << position, mousePosition, mousePositionOnOpen, visible,
                    optionPath, disableBufferTriangles,
                    enteredRootElementTimestamp, now, rootChangedAt >>

\* rebuildOptions allocates the new tree: the options optionPath still holds
\* are the same objects as before, now of an earlier allocation.
show(hasSelectedPoint) ==
    /\ tree' = rebuildOptions(hasSelectedPoint, Latest)
    /\ optionPath' = [ i \in DOMAIN optionPath |-> aged(optionPath[i]) ]
    /\ visible' = TRUE
    /\ op' = "other"
    /\ ret' = ""
    /\ wasVisible' = FALSE
    /\ stayedOnRoot' = FALSE
    /\ UNCHANGED << position, mousePosition, mousePositionOnOpen,
                    disableBufferTriangles, enteredRootElementTimestamp,
                    now, rootChangedAt >>

hide ==
    /\ visible' = FALSE
    /\ op' = "other"
    /\ ret' = ""
    /\ wasVisible' = FALSE
    /\ stayedOnRoot' = FALSE
    /\ UNCHANGED << position, mousePosition, mousePositionOnOpen, tree,
                    optionPath, disableBufferTriangles,
                    enteredRootElementTimestamp, now, rootChangedAt >>

\* Whether a pointer update at `mouse`, made with the buffers disabled, picks
\* through the full re-scan a root whose row holds the pointer and which is
\* not the root of the previous path; `result` is the new path.
selectsNewRoot(path, pos, options, mouse, disabled, result) ==
    /\ disabled
    /\ ~stickyApplies(path, pos, size(options), mouse, disabled)
    /\ Len(result) > 0
    /\ rootRowBox(result[1], pos, size(options), mouse)
    /\ (Len(path) = 0 \/ result[1] # path[1])

\* this.mousePosition = v; this.optionPath = this.optionPathUnderMouse()
recompute(v) ==
    \E r \in { optionPathUnderMouse(optionPath, position, tree.options, v,
                   disableBufferTriangles, enteredRootElementTimestamp, now) } :
        /\ mousePosition' = v
        /\ optionPath' = r.result
        /\ disableBufferTriangles' = r.disabled
        /\ enteredRootElementTimestamp' = r.stamp
        /\ rootChangedAt' =
               IF selectsNewRoot(optionPath, position, tree.options, v,
                                 disableBufferTriangles, r.result)
               THEN now ELSE rootChangedAt
        /\ stayedOnRoot' =
               \/ selectsNewRoot(optionPath, position, tree.options, v,
                                 disableBufferTriangles, r.result)
               \/ /\ stayedOnRoot
                  /\ Len(optionPath) > 0
                  /\ rootRowBox(optionPath[1], position, size(tree.options), v)

\* the test of click on the recomputed path: a root without children, or a
\* path of length 2
isSelection(path) ==
    \/ (Len(path) = 1 /\ Len(path[1].children) = 0)
    \/ Len(path) = 2

\* the value click returns for the recomputed path
clickResult(path) ==
    IF Len(path) > 0 /\ isSelection(path) /\ path[Len(path)].enabled
    THEN path[Len(path)].action
    ELSE ""

click(v) ==
    /\ op' = "click"
    /\ wasVisible' = visible
    /\ IF visible
       THEN /\ recompute(v)
            /\ visible' = ~(Len(optionPath') > 0 /\ isSelection(optionPath'))
            /\ ret' = clickResult(optionPath')
       ELSE /\ ret' = ""
            /\ stayedOnRoot' = FALSE
            /\ UNCHANGED << mousePosition, optionPath, disableBufferTriangles,
                            enteredRootElementTimestamp, visible, rootChangedAt >>
    /\ UNCHANGED << position, mousePositionOnOpen, tree, now >>

\* inDismissBox as it would be without the padding
inDismissBoxUnpadded(pos, options, mouse) ==
    pointInBox(mouse, pos, size(options))

\* the padded box of the auto-dismiss test
inDismissBox(pos, options, mouse) ==
    pointInBox(mouse, add(pos, vec2(-40, -40)), add(size(options), vec2(80, 150)))

\* setMousePosition on a visible menu
setMousePositionVisible(v) ==
    /\ recompute(v)
    /\ visible' = ~(Len(optionPath') = 0
                    /\ ~inDismissBox(position, tree.options, v))

\* setMousePosition as it would be if it did not clear the path of a hidden
\* menu
setMousePositionKeepsPath(v) ==
    /\ op' = "setMousePosition"
    /\ ret' = ""
    /\ wasVisible' = visible
    /\ IF ~visible
       THEN /\ mousePosition' = v
            /\ stayedOnRoot' = FALSE
            /\ UNCHANGED << optionPath, disableBufferTriangles,
                            enteredRootElementTimestamp, visible, rootChangedAt >>
       ELSE setMousePositionVisible(v)
    /\ UNCHANGED << position, mousePositionOnOpen, tree, now >>

setMousePosition(v) ==
    /\ op' = "setMousePosition"
    /\ ret' = ""
    /\ wasVisible' = visible
    /\ IF ~visible
       THEN /\ mousePosition' = v
            /\ optionPath' = << >>
            /\ stayedOnRoot' = FALSE
            /\ UNCHANGED << disableBufferTriangles, enteredRootElementTimestamp,
                            visible, rootChangedAt >>
       ELSE setMousePositionVisible(v)
    /\ UNCHANGED << position, mousePositionOnOpen, tree, now >>

setPosition(v) ==
    /\ mousePositionOnOpen' = vec2(v.x, v.y)
    /\ position' = IF v.x + MenuWidth * 2 + PropertiesWidth > BoundsX
                   THEN vec2(v.x - MenuWidth, v.y)
                   ELSE vec2(v.x, v.y)
    /\ op' = "other"
    /\ ret' = ""
    /\ wasVisible' = FALSE
    /\ stayedOnRoot' = FALSE
    /\ UNCHANGED << mousePosition, tree, visible, optionPath,
                    disableBufferTriangles, enteredRootElementTimestamp,
                    now, rootChangedAt >>

\* time passes between two events
tick ==
    /\ now < ClockStart + MaxTicks * TickMs
    /\ now' = now + TickMs
    /\ op' = "other"
    /\ ret' = ""
    /\ wasVisible' = FALSE
    /\ UNCHANGED << position, mousePosition, mousePositionOnOpen, tree, visible,
                    optionPath, disableBufferTriangles,
                    enteredRootElementTimestamp, rootChangedAt, stayedOnRoot >>

Next ==
    \/ \E hasSelectedPoint \in BOOLEAN : show(hasSelectedPoint)
    \/ hide
    \/ \E t \in HostTrees : setOptionTree(t)
    \/ \E v \in PositionInputs : setPosition(v)
    \/ \E v \in MousePoints : setMousePosition(v)
    \/ \E v \in MousePoints : click(v)
    \/ tick

Spec == Init /\ [][Next]_vars

----------------------------------------------------------------------------
(* A layout pass on its own: computeOffsetForOptions applied to option     *)
(* lists of every shape, whose options carry the offsets of earlier passes *)

\* an option with the computedOffset an earlier pass left in it
withOffset(option, offset) == [ option EXCEPT !.computedOffset = offset ]

\* children lists, with stale offsets
LayoutChildLists ==
    { << withOffset(simpleOption("c1", "Act1", TRUE, << >>, Latest), StaleOffset),
         withOffset(spacer(Latest), 0),
         withOffset(simpleOption("c2", "Act2", TRUE, << >>, Latest), StaleOffset) >>,
      << withOffset(header("h", Latest), 0),
         withOffset(simpleOption("c3", "Act3", FALSE, << >>, Latest), 0) >> }

\* the options a root list is made of
LayoutOptions ==
    UNION { { withOffset(spacer(Latest), o),
              withOffset(header("H", Latest), o),
              withOffset(simpleOption("leaf", "Act", TRUE, << >>, Latest), o) }
            \cup { withOffset(simpleOption("sub", "", TRUE, c, Latest), o) :
                     c \in LayoutChildLists } :
            o \in { 0, StaleOffset } }

LayoutInputs ==
    UNION { [ 1..n -> LayoutOptions ] : n \in 1..MaxLayoutLen }

InitLayout ==
    /\ position = vec2(0, 0)
    /\ mousePosition = vec2(0, 0)
    /\ mousePositionOnOpen = vec2(0, 0)
    /\ optionPath = << >>
    /\ disableBufferTriangles = TRUE
    /\ enteredRootElementTimestamp = 0
    /\ \E options \in LayoutInputs : tree = [ options |-> options ]
    /\ visible = FALSE
    /\ now = ClockStart
    /\ op = "other"
    /\ ret = ""
    /\ wasVisible = FALSE
    /\ rootChangedAt = 0
    /\ stayedOnRoot = FALSE

\* this.computeOffsetForOptions(options) on the options of the tree
layoutPass ==
    /\ tree' = [ options |-> computeOffsetForOptions(tree.options) ]
    /\ op' = "layout"
    /\ UNCHANGED << position, mousePosition, mousePositionOnOpen, visible,
                    optionPath, disableBufferTriangles,
                    enteredRootElementTimestamp, now, ret, wasVisible,
                    rootChangedAt, stayedOnRoot >>

NextLayout == layoutPass

SpecLayout == InitLayout /\ [][NextLayout]_vars

----------------------------------------------------------------------------
(* Vocabulary of the properties *)

PointerOps == { "click", "setMousePosition" }

\* a path made of one root option that has no submenu
isChildlessRoot(path) == Len(path) = 1 /\ Len(path[1].children) = 0

\* a path made of a root option and one of its children
isRootChildPair(path) ==
    /\ Len(path) = 2
    /\ \E j \in DOMAIN path[1].children : path[1].children[j] = path[2]

\* a resolved selection in the sense of click
isResolved(path) == isChildlessRoot(path) \/ isRootChildPair(path)

\* the pointer lies on the row of a root-level or submenu option of the
\* published tree that is a Header or a Spacer
onHeaderOrSpacerRow(mouse) ==
    \E i \in DOMAIN tree.options :
        LET R == tree.options[i]
        IN  \/ /\ R.type # Default
               /\ rootRowBox(R, position, size(tree.options), mouse)
            \/ \E j \in DOMAIN R.children :
                   /\ R.children[j].type # Default
                   /\ childRowBox(R, R.children[j], size(R.children), position,
                                  size(tree.options), mouse)

\* whether every computedOffset of a list, and of the children lists in it,
\* is the value a layout pass assigns
isLaidOut(options) == options = computeOffsetForOptions(options)

\* the option objects of a tree: its root options and their children
optionsOf(options) ==
    { options[i] : i \in DOMAIN options }
    \cup UNION { { options[i].children[j] : j \in DOMAIN options[i].children } :
                 i \in DOMAIN options }

\* a path [R] or [R, C] with C a child of R
isRootedAt(path, R) ==
    \/ path = << R >>
    \/ /\ Len(path) = 2
       /\ path[1] = R
       /\ \E j \in DOMAIN R.children : R.children[j] = path[2]

----------------------------------------------------------------------------
(* C1: round trip.  For a visible menu, a root option R with children, a   *)
(* child C of R and a pointer inside C's row box in the submenu column, a  *)
(* pointer update resolves the path to exactly [R, C], whether the         *)
(* previous path was empty, [R] or [R, C'], and click at that point        *)
(* returns C's action when C is enabled and "" when C is disabled.         *)
C1_RoundTrip ==
    [][ \A i \in DOMAIN tree.options :
          \A j \in DOMAIN tree.options[i].children :
            LET R == tree.options[i]
                C == R.children[j]
            IN  ( /\ visible
                  /\ op' \in PointerOps
                  /\ childRowBox(R, C, size(R.children), position,
                                 size(tree.options), mousePosition')
                  /\ \/ optionPath = << >>
                     \/ optionPath = << R >>
                     \/ (isRootChildPair(optionPath) /\ optionPath[1] = R) )
                => /\ optionPath' = << R, C >>
                   /\ (op' = "click"
                       => ret' = IF C.enabled THEN C.action ELSE "") ]_vars

----------------------------------------------------------------------------
(* C2: click returns a non-empty string only if the menu was visible, the  *)
(* recomputed path is a single root without children or a [root, child]    *)
(* pair, and the last option of the path is enabled; the string is then    *)
(* that option's action.  In every other case click returns "".            *)
C2_ClickResolves ==
    [][ op' = "click"
        => LET path == optionPath'
               resolves == /\ visible
                           /\ isResolved(path)
                           /\ path[Len(path)].enabled
           IN  /\ (ret' # "" => resolves)
               /\ (resolves => ret' = path[Len(path)].action)
               /\ (~resolves => ret' = "") ]_vars

----------------------------------------------------------------------------
(* C3: click hides the menu exactly when the menu was visible and the      *)
(* recomputed path is a resolved selection (a childless root or a          *)
(* [root, child] pair), also when the selected option is disabled; in      *)
(* every other case it leaves visible unchanged, and a click on an         *)
(* invisible menu changes no field of the menu.                            *)
C3_ClickHides ==
    [][ op' = "click"
        => /\ (visible /\ isResolved(optionPath') => ~visible')
           /\ (~(visible /\ isResolved(optionPath')) => visible' = visible)
           /\ (~visible
               => UNCHANGED << position, mousePosition, mousePositionOnOpen,
                               tree, visible, optionPath,
                               disableBufferTriangles,
                               enteredRootElementTimestamp >>) ]_vars

----------------------------------------------------------------------------
(* C4: Header and Spacer options are never selectable and never clickable: *)
(* no option of kind Header or Spacer, root-level or in a submenu, is ever *)
(* in the selection path, and a click with the pointer on a Header or      *)
(* Spacer row returns "" and leaves the menu visible.                      *)
C4_HeaderSpacerInert ==
    /\ \A i \in DOMAIN optionPath : optionPath[i].type = Default
    /\ (op = "click" /\ wasVisible /\ onHeaderOrSpacerRow(mousePosition))
       => (ret = "" /\ visible)

----------------------------------------------------------------------------
(* C5: setMousePosition called while the menu is not visible leaves the    *)
(* selection path empty, whatever the pointer position and the state       *)
(* before, and does not make the menu visible.                             *)
C5_HiddenMoveClearsPath ==
    (op = "setMousePosition" /\ ~wasVisible)
    => (optionPath = << >> /\ ~visible)

\* a hidden menu was told a pointer position that lies on the row of a
\* selectable root option
C5_Witness ==
    /\ op = "setMousePosition"
    /\ ~wasVisible
    /\ \E i \in DOMAIN tree.options :
           /\ tree.options[i].type = Default
           /\ rootRowBox(tree.options[i], position, size(tree.options),
                         mousePosition)

----------------------------------------------------------------------------
(* C6: hide() clears the selection path: whenever the menu is hidden (by   *)
(* hide, by a resolving click or by auto-dismiss) the path is empty, so    *)
(* visible = false implies an empty path in every reachable state and the  *)
(* next show() starts with an empty path.                                  *)
C6_HiddenPathEmpty == ~visible => optionPath = << >>

----------------------------------------------------------------------------
(* C7: auto-dismiss.  setMousePosition(p) on a visible menu hides the menu *)
(* if and only if the recomputed path is empty and p lies outside the      *)
(* half-open box with top-left position - (40, 40) and size                *)
(* size(root options) + (80, 150).                                         *)
C7_AutoDismiss ==
    (op = "setMousePosition" /\ wasVisible)
    => (~visible <=>
          /\ optionPath = << >>
          /\ ~pointInBox(mousePosition, sub(position, vec2(40, 40)),
                         add(size(tree.options), vec2(80, 150))))

\* a pointer update dismissed a visible menu
C7_Witness == op = "setMousePosition" /\ wasVisible /\ ~visible

----------------------------------------------------------------------------
(* C8: hysteresis corridor.  With the buffers enabled and the previous     *)
(* path equal to [R] for a root R with children, a pointer update inside   *)
(* the upper or the lower buffer triangle of R and not yet inside the      *)
(* submenu box keeps the path [R], the menu visible and the buffers        *)
(* enabled.                                                                *)
C8_Corridor ==
    [][ ( /\ op' = "setMousePosition"
          /\ visible
          /\ ~disableBufferTriangles
          /\ Len(optionPath) = 1
          /\ Len(optionPath[1].children) > 0
          /\ \/ inUpperBufferTriangle(optionPath[1], position,
                                      size(tree.options), mousePosition')
             \/ inLowerBufferTriangle(optionPath[1], position,
                                      size(tree.options), mousePosition')
          /\ ~inChildMenu(optionPath[1], position, size(tree.options),
                          mousePosition') )
        => /\ optionPath' = optionPath
           /\ visible'
           /\ ~disableBufferTriangles' ]_vars

\* the pointer rests in a buffer triangle of the root R of the path [R],
\* outside R's own rows and outside the padded submenu box, with the
\* buffers enabled: only the triangle keeps R selected
C8_Witness ==
    /\ op = "setMousePosition"
    /\ visible
    /\ ~disableBufferTriangles
    /\ Len(optionPath) = 1
    /\ Len(optionPath[1].children) > 0
    /\ \/ inUpperBufferTriangle(optionPath[1], position, size(tree.options),
                                mousePosition)
       \/ inLowerBufferTriangle(optionPath[1], position, size(tree.options),
                                mousePosition)
    /\ ~inRootOption(optionPath[1], position, size(tree.options), mousePosition)
    /\ ~rootRowBox(optionPath[1], position, size(tree.options), mousePosition)
    /\ ~inChildBuffer(optionPath[1], position, size(tree.options), mousePosition)

----------------------------------------------------------------------------
(* C9 *)

\* a pointer update that enters a submenu: it lies inside the submenu box of
\* the sticky root, or it produces a [root, child] path
EntersSubmenu ==
    /\ op' \in PointerOps
    /\ visible
    /\ \/ /\ hasStickyRoot(optionPath)
          /\ inChildMenu(optionPath[1], position, size(tree.options),
                         mousePosition')
       \/ isRootChildPair(optionPath')

\* a pointer update whose full re-scan finds the pointer on a root-level row
\* more than 500 ms after the timer was started
TimerRearm ==
    /\ op' \in PointerOps
    /\ visible
    /\ ~stickyApplies(optionPath, position, size(tree.options), mousePosition',
                      disableBufferTriangles)
    /\ \E i \in DOMAIN tree.options :
           rootRowBox(tree.options[i], position, size(tree.options),
                      mousePosition')
    /\ now - enteredRootElementTimestamp' > 500

----------------------------------------------------------------------------
(* C10: timer gating.  If the buffers are disabled and a pointer update at *)
(* clock time t selects through the full re-scan a root other than the     *)
(* previously selected root, the buffers are disabled after that update    *)
(* and after every step made at a clock time <= t + 500; in that window a  *)
(* pointer inside the buffer triangles of the selected root gets no        *)
(* triangle protection (the path stays [R] only where R's own regions hold *)
(* the pointer); and the buffers change from disabled to enabled only in   *)
(* an update with now - rootEnteredAt > 500.                               *)
C10_TimerGating ==
    [][ /\ ( (rootChangedAt' # 0 /\ now' - rootChangedAt' <= 500)
             => disableBufferTriangles' )
        /\ ( ( /\ op' \in PointerOps
               /\ visible
               /\ rootChangedAt # 0
               /\ now - rootChangedAt <= 500
               /\ hasStickyRoot(optionPath)
               /\ \/ inUpperBufferTriangle(optionPath[1], position,
                                           size(tree.options), mousePosition')
                  \/ inLowerBufferTriangle(optionPath[1], position,
                                           size(tree.options), mousePosition')
               /\ ~inRootOption(optionPath[1], position, size(tree.options),
                                mousePosition')
               /\ ~inChildMenu(optionPath[1], position, size(tree.options),
                               mousePosition')
               /\ ~inChildBuffer(optionPath[1], position, size(tree.options),
                                 mousePosition')
               /\ optionPath' = << optionPath[1] >> )
             => rootRowBox(optionPath[1], position, size(tree.options),
                           mousePosition') )
        /\ ( (disableBufferTriangles /\ ~disableBufferTriangles')
             => /\ op' \in PointerOps
                /\ now - enteredRootElementTimestamp' > 500 ) ]_vars

\* a pointer update on the visible menu made after the update that picked a
\* new root with children, within 500 ms of it: the root is still selected
\* and its buffers are still disabled
C10_Witness ==
    /\ op = "setMousePosition"
    /\ wasVisible
    /\ visible
    /\ disableBufferTriangles
    /\ rootChangedAt # 0
    /\ now - rootChangedAt > 0
    /\ now - rootChangedAt <= 500
    /\ Len(optionPath) = 1
    /\ Len(optionPath[1].children) > 0

----------------------------------------------------------------------------
(* C12: computedOffset is never observed stale: in every reachable state   *)
(* every option of the published tree, root-level or child, has the        *)
(* computedOffset a layout pass over its containing list assigns.          *)
C12_NeverStale == isLaidOut(tree.options)

----------------------------------------------------------------------------
(* C14: sticky root.  For a visible menu whose previous path starts with a *)
(* root R that has children, a pointer update inside R's row box, the      *)
(* submenu box, the padded submenu box or, while the buffers are enabled,  *)
(* one of the two buffer triangles gives the path [R] or [R, C] with C a   *)
(* child of R, and a setMousePosition does not dismiss the menu.  Stated   *)
(* for a laid-out published tree of which R is a root option.              *)
C14_StickyRoot ==
    [][ ( /\ visible
          /\ op' \in PointerOps
          /\ hasStickyRoot(optionPath)
          /\ isLaidOut(tree.options)
          /\ \E i \in DOMAIN tree.options : tree.options[i] = optionPath[1]
          /\ LET R == optionPath[1]
                 sz == size(tree.options)
             IN  \/ inRootOption(R, position, sz, mousePosition')
                 \/ inChildMenu(R, position, sz, mousePosition')
                 \/ inChildBuffer(R, position, sz, mousePosition')
                 \/ /\ ~disableBufferTriangles
                    /\ \/ inUpperBufferTriangle(R, position, sz, mousePosition')
                       \/ inLowerBufferTriangle(R, position, sz, mousePosition') )
        => /\ isRootedAt(optionPath', optionPath[1])
           /\ (op' = "setMousePosition" => visible') ]_vars

----------------------------------------------------------------------------
(* C17: the root-row region of the sticky path (inRootOption) is the same  *)
(* box as that root's row box in the full re-scan: for every sticky root R *)
(* and pointer p both tests agree; so with the buffers disabled and the    *)
(* pointer inside the re-scan row box of another root R2 and outside R's   *)
(* padded submenu box, the new path is [R2] and not [R].                   *)
C17_SameRowBox ==
    [][ ( /\ visible
          /\ op' \in PointerOps
          /\ hasStickyRoot(optionPath) )
        => LET R == optionPath[1]
               sz == size(tree.options)
           IN  /\ inRootOption(R, position, sz, mousePosition')
                  <=> rootRowBox(R, position, sz, mousePosition')
               /\ \A i \in DOMAIN tree.options :
                      ( /\ disableBufferTriangles
                        /\ tree.options[i] # R
                        /\ rootRowBox(tree.options[i], position, sz,
                                      mousePosition')
                        /\ ~inChildBuffer(R, position, sz, mousePosition') )
                      => optionPath' = << tree.options[i] >> ]_vars

----------------------------------------------------------------------------
(* C19: a click never yields the action of an option under a disabled      *)
(* root: whenever click returns a non-empty action for a path              *)
(* [root, child], both root and child are enabled.                         *)
C19_NoActionUnderDisabledRoot ==
    (op = "click" /\ ret # "" /\ Len(optionPath) = 2)
    => (optionPath[1].enabled /\ optionPath[2].enabled)

----------------------------------------------------------------------------
(* C20: the selection path only references the current tree: in every      *)
(* reachable state every option of the path is an option object of the     *)
(* published tree, a root option or a child of one.                        *)
C20_PathInCurrentTree ==
    \A i \in DOMAIN optionPath : optionPath[i] \in optionsOf(tree.options)

----------------------------------------------------------------------------
(* C18: no degenerate triangle is ever tested.  In every pointer update    *)
(* that reaches the triangle tests (the previous path has a root with at   *)
(* least one child) the submenu height is positive and both triangles      *)
(* passed to pointInTriangle have a non-zero barycentric denominator       *)
(* d00 * d11 - d01 * d01.                                                  *)
C18_NoDegenerateTriangle ==
    [][ ( /\ visible
          /\ op' \in PointerOps
          /\ hasStickyRoot(optionPath) )
        => LET R == optionPath[1]
               sz == size(tree.options)
           IN  /\ sz.x > 0
               /\ size(R.children).y > 0
               /\ baycentric(mousePosition',
                             upperBufferTriangle(R, position, sz)).denom # 0
               /\ baycentric(mousePosition',
                             lowerBufferTriangle(R, position, sz)).denom # 0 ]_vars

\* a pointer update was decided by the lower triangle alone: the buffers are
\* enabled and the pointer is inside the lower buffer triangle of the root
\* of the path, outside the root's row and outside the padded submenu box
C18_Witness ==
    /\ op = "setMousePosition"
    /\ wasVisible
    /\ visible
    /\ ~disableBufferTriangles
    /\ optionPath # << >>
    /\ hasStickyRoot(optionPath)
    /\ inLowerBufferTriangle(optionPath[1], position, size(tree.options),
                             mousePosition)
    /\ ~inUpperBufferTriangle(optionPath[1], position, size(tree.options),
                              mousePosition)
    /\ ~inRootOption(optionPath[1], position, size(tree.options), mousePosition)
    /\ ~inChildBuffer(optionPath[1], position, size(tree.options), mousePosition)
    /\ ~inChildMenu(optionPath[1], position, size(tree.options), mousePosition)

----------------------------------------------------------------------------
(* C11: selection-path shape.  For a laid-out two-level tree installed in  *)
(* the menu, the selection path has length 0, 1 or 2; when non-empty its   *)
(* first element is a root-level option, and when it has length 2 its      *)
(* second element is a child of the first.  Stated for the path a pointer  *)
(* update computes on a visible menu from a laid-out tree and a previous   *)
(* path that holds options of that tree only.                              *)
C11_PathShape ==
    [][ ( /\ visible
          /\ op' \in PointerOps
          /\ isLaidOut(tree.options)
          /\ \A i \in DOMAIN optionPath :
                 optionPath[i] \in optionsOf(tree.options) )
        => /\ Len(optionPath') <= 2
           /\ Len(optionPath') > 0
              => \E i \in DOMAIN tree.options : tree.options[i] = optionPath'[1]
           /\ Len(optionPath') = 2 => isRootChildPair(optionPath') ]_vars

----------------------------------------------------------------------------
(* C13: setPosition(p) for p inside the viewport sets mousePositionOnOpen  *)
(* to p and position to p, shifted left by exactly one MenuWidth when      *)
(* p.x + 2 * MenuWidth + PropertiesWidth > bounds.x, and the resulting     *)
(* anchor is clamped to the viewport: position.x >= 0 and                  *)
(* position.x + 2 * MenuWidth + PropertiesWidth <= bounds.x.  Only the     *)
(* constructor and setPosition write the two fields, so the relation       *)
(* between them is the postcondition of the latest of the two.             *)
C13_AnchorInViewport ==
    LET p == mousePositionOnOpen
    IN  (0 <= p.x /\ p.x <= BoundsX)
        => /\ position = IF p.x + 2 * MenuWidth + PropertiesWidth > BoundsX
                         THEN vec2(p.x - MenuWidth, p.y)
                         ELSE p
           /\ position.x >= 0
           /\ position.x + 2 * MenuWidth + PropertiesWidth <= BoundsX

----------------------------------------------------------------------------
(* C15: buffer re-arming.  If the buffers are disabled and the pointer     *)
(* enters a root option R that has children at clock time t and then stays *)
(* on R (every later pointer update lies inside R's row box), any pointer  *)
(* update made at a clock time > t + 500 leaves the buffers enabled,       *)
(* wherever inside R's row the pointer is.                                 *)
C15_Rearm ==
    [][ ( /\ visible
          /\ stayedOnRoot
          /\ hasStickyRoot(optionPath)
          /\ op' \in PointerOps
          /\ rootRowBox(optionPath[1], position, size(tree.options),
                        mousePosition')
          /\ now - rootChangedAt > 500 )
        => ~disableBufferTriangles' ]_vars

----------------------------------------------------------------------------
(* C16: layout.  After a layout pass, in the root list and in the children *)
(* list of every option, the i-th option's computedOffset is 12 plus the   *)
(* sum of the heights of the options before it in the same list (2 for a   *)
(* Spacer, 20 for a Header or a Selectable); children offsets do not       *)
(* depend on the parent's offset or on the parent list's running height;   *)
(* the result does not depend on the computedOffset values present before  *)
(* the pass; and a second pass yields identical offsets.                   *)

\* the offsets of one list as the claim gives them
offsetsAsClaimed(options) ==
    \A i \in DOMAIN options :
        options[i].computedOffset =
            12 + 2 * Cardinality({ k \in 1..(i - 1) : options[k].type = Spacer })
               + 20 * Cardinality({ k \in 1..(i - 1) : options[k].type # Spacer })

\* a list with every computedOffset, of roots and of children, set to zero
zeroed(options) ==
    [ i \in DOMAIN options |->
        [ options[i] EXCEPT
            !.computedOffset = 0,
            !.children = [ j \in DOMAIN @ |-> [ @[j] EXCEPT !.computedOffset = 0 ] ] ] ]

C16_Layout ==
    [][ op' = "layout"
        => /\ offsetsAsClaimed(tree'.options)
           /\ \A i \in DOMAIN tree'.options :
                  offsetsAsClaimed(tree'.options[i].children)
           /\ zeroed(tree'.options) = zeroed(tree.options)
           /\ tree'.options = computeOffsetForOptions(zeroed(tree.options))
           /\ computeOffsetForOptions(tree'.options) = tree'.options ]_vars

\* a pass has run on a list whose third option has a submenu of three
\* options, a Spacer among them, behind a Spacer of the root list
C16_Witness ==
    /\ op = "layout"
    /\ Len(tree.options) = 3
    /\ tree.options[2].type = Spacer
    /\ Len(tree.options[3].children) = 3
    /\ tree.options[3].children[2].type = Spacer
    /\ tree.options[3].computedOffset # tree.options[3].children[3].computedOffset

====
